---- MODULE Spec2Model ----
(***************************************************************************)
(* Model of the Slack assistant pipeline of youyo/slack-assistant:         *)
(*   ingress normalisation -> AgentCore invoker -> AgentCore runtime       *)
(*   (pre-filter, Router agent, Conversation agent) -> Slack posting.      *)
(* Python strings that the code inspects character by character (message   *)
(* text, ids, timestamps) are sequences of one-character strings; strings  *)
(* the code only copies (reasons, reply texts, enum values) are TLA+       *)
(* strings.                                                                *)
(***************************************************************************)
EXTENDS Integers, Sequences, FiniteSets, TLC

(***************************************************************************)
(* Bounds of the model.                                                    *)
(***************************************************************************)
\* number of text fragments concatenated into one Slack message text
MaxAtoms == 2
\* the wall-clock budget of one orchestration, in clock ticks (spec 5)
WallClockBudget == 2
\* the clock of the model stops one tick after the budget
MaxElapsed == WallClockBudget + 1
\* invocations of the posting Lambda on one execution's output that are followed
MaxDeliveries == 2

(***************************************************************************)
(* Python string operations on sequences of characters.                    *)
(***************************************************************************)
\* s[i:i+len(p)] == p  (1-based i)
MatchAt(s, p, i) ==
    /\ i >= 1
    /\ i + Len(p) - 1 <= Len(s)
    /\ SubSeq(s, i, i + Len(p) - 1) = p

\* str.find, 1-based; 0 when p does not occur in s
Find(s, p) ==
    IF \E i \in 1..Len(s) : MatchAt(s, p, i)
    THEN CHOOSE i \in 1..Len(s) :
            /\ MatchAt(s, p, i)
            /\ \A j \in 1..(i - 1) : ~MatchAt(s, p, j)
    ELSE 0

\* p in s   (p non-empty)
Contains(s, p) == Find(s, p) # 0

\* s.startswith(p)
StartsWith(s, p) == MatchAt(s, p, 1)

\* s.split(d)[0]
SplitFirst(s, d) ==
    IF Find(s, d) = 0 THEN s ELSE SubSeq(s, 1, Find(s, d) - 1)

\* s.replace(p, ""): leftmost non-overlapping occurrences, one pass
RECURSIVE RemoveAll(_, _)
RemoveAll(s, p) ==
    IF Find(s, p) = 0 THEN s
    ELSE SubSeq(s, 1, Find(s, p) - 1)
            \o RemoveAll(SubSeq(s, Find(s, p) + Len(p), Len(s)), p)

\* s.replace(a, b) for single characters a, b
ReplaceChar(s, a, b) == [i \in 1..Len(s) |-> IF s[i] = a THEN b ELSE s[i]]

IsSpace(c) == c \in {" ", "\n", "\t", "\r"}

\* s.strip()
Strip(s) ==
    IF \A i \in 1..Len(s) : IsSpace(s[i]) THEN <<>>
    ELSE LET first == CHOOSE i \in 1..Len(s) :
                        ~IsSpace(s[i]) /\ \A j \in 1..(i - 1) : IsSpace(s[j])
             last  == CHOOSE i \in 1..Len(s) :
                        ~IsSpace(s[i]) /\ \A j \in (i + 1)..Len(s) : IsSpace(s[j])
         IN SubSeq(s, first, last)

\* "\n".join(parts)
RECURSIVE JoinLines(_)
JoinLines(parts) ==
    IF Len(parts) = 0 THEN <<>>
    ELSE IF Len(parts) = 1 THEN parts[1]
    ELSE parts[1] \o <<"\n">> \o JoinLines(Tail(parts))

\* str(b) for a bool
PyStrBool(b) == IF b THEN <<"T", "r", "u", "e">> ELSE <<"F", "a", "l", "s", "e">>

\* dict.get(k, default)
Get(d, k, default) == IF k \in DOMAIN d THEN d[k] ELSE default

\* truthiness of a str
NonEmpty(s) == Len(s) > 0

(***************************************************************************)
(* String literals of the source.                                          *)
(***************************************************************************)
USER_MESSAGE_PREFIX ==
    <<"U", "s", "e", "r", " ", "m", "e", "s", "s", "a", "g", "e", ":", " ">>
SLACK_CONTEXT_LINE ==
    <<"S", "l", "a", "c", "k", " ", "c", "o", "n", "t", "e", "x", "t", ":">>
SLACK_CONTEXT_MARK == <<"\n", "\n">> \o SLACK_CONTEXT_LINE
MENTIONED_TRUE ==
    <<"i", "s", "_", "m", "e", "n", "t", "i", "o", "n", "e", "d", ":", " ",
      "T", "r", "u", "e">>
CtxMentioned ==
    <<"-", " ", "i", "s", "_", "m", "e", "n", "t", "i", "o", "n", "e", "d", ":", " ">>
CtxDm == <<"-", " ", "i", "s", "_", "d", "m", ":", " ">>
CtxChannelKind ==
    <<"-", " ", "c", "h", "a", "n", "n", "e", "l", "_", "k", "i", "n", "d", ":", " ">>
CtxInThread ==
    <<"-", " ", "i", "s", "_", "i", "n", "_", "t", "h", "r", "e", "a", "d", ":", " ">>

\* the configured bot user id (get_slack_bot_user_id)
bot_user_id == <<"U", "B">>
\* f"<@{bot_user_id}>"
MentionToken == <<"<", "@">> \o bot_user_id \o <<">">>

(***************************************************************************)
(* Inputs: Slack message events accepted by the ingress.                   *)
(***************************************************************************)
TextAtoms ==
    { <<"o", "k", "!">>,
      <<"h", "e", "l", "p">>,
      <<" ">>,
      MentionToken,
      USER_MESSAGE_PREFIX,
      SLACK_CONTEXT_MARK,
      MENTIONED_TRUE }

RECURSIVE TextsUpTo(_)
TextsUpTo(n) ==
    IF n = 0 THEN { <<>> }
    ELSE TextsUpTo(n - 1) \cup { t \o a : t \in TextsUpTo(n - 1), a \in TextAtoms }

Texts == TextsUpTo(MaxAtoms)

ChannelIds == { <<"C", "1">> }
EventTs == <<"2", ".", "5">>
ParentTs == <<"1", ".", "5">>
TeamId == <<"T", "1">>
UserId == <<"U", "1">>

\* inner message events; "thread_ts" is an optional key and may be empty
SlackEvents ==
    { [channel |-> c, text |-> t, ts |-> EventTs, user |-> UserId] :
        c \in ChannelIds, t \in Texts }
    \cup
    { [channel |-> c, text |-> t, ts |-> EventTs, user |-> UserId, thread_ts |-> th] :
        c \in ChannelIds, t \in Texts, th \in { ParentTs, <<>> } }

(***************************************************************************)
(* Ingress: normalize_event.                                               *)
(***************************************************************************)
detect_channel_kind_two_kinds(channel_id) ==
    IF StartsWith(channel_id, <<"C">>) THEN "public"
    ELSE IF StartsWith(channel_id, <<"D">>) THEN "dm"
    ELSE "unknown"

detect_channel_kind(channel_id) ==
    IF StartsWith(channel_id, <<"C">>) THEN "public"
    ELSE IF StartsWith(channel_id, <<"G">>) THEN "private"
    ELSE IF StartsWith(channel_id, <<"D">>) THEN "dm"
    ELSE "unknown"

normalize_event_own_ts(event, bot) ==
    LET channel_id == Get(event, "channel", <<>>)
        text       == Get(event, "text", <<>>)
        ts         == Get(event, "ts", <<>>)
    IN [ team_id      |-> Get(event, "team", <<>>),
         channel_id   |-> channel_id,
         channel_kind |-> detect_channel_kind(channel_id),
         user_id      |-> Get(event, "user", <<>>),
         text         |-> text,
         ts           |-> ts,
         thread_ts    |-> ts,
         is_mentioned |-> Contains(text, <<"<", "@">> \o bot \o <<">">>),
         is_dm        |-> StartsWith(channel_id, <<"D">>),
         event_type   |-> "message" ]

normalize_event(event, bot) ==
    LET channel_id == Get(event, "channel", <<>>)
        text       == Get(event, "text", <<>>)
        ts         == Get(event, "ts", <<>>)
        thread_ts  == Get(event, "thread_ts", ts)
    IN [ team_id      |-> Get(event, "team", <<>>),
         channel_id   |-> channel_id,
         channel_kind |-> detect_channel_kind(channel_id),
         user_id      |-> Get(event, "user", <<>>),
         text         |-> text,
         ts           |-> ts,
         thread_ts    |-> thread_ts,
         is_mentioned |-> Contains(text, <<"<", "@">> \o bot \o <<">">>),
         is_dm        |-> StartsWith(channel_id, <<"D">>),
         event_type   |-> "message" ]

\* the ingress handler overwrites team_id with the envelope's team_id
NormalizedEvent(event) ==
    [ normalize_event(event, bot_user_id) EXCEPT !.team_id = TeamId ]

(***************************************************************************)
(* AgentCore runtime: handler.py (invoke) and graph.py (run_orchestration).*)
(***************************************************************************)
Routes == {"ignore", "simple_reply", "full_reply"}
ReplyModes == {"thread", "channel"}
TypingStyles == {"none", "short", "long"}
FinalReplyFields ==
    {"should_reply", "route", "reply_mode", "typing_style", "reply_text", "reason"}

\* str(channel_kind) as characters
KindChars(kind) ==
    IF kind = "public" THEN <<"p", "u", "b", "l", "i", "c">>
    ELSE IF kind = "private" THEN <<"p", "r", "i", "v", "a", "t", "e">>
    ELSE IF kind = "dm" THEN <<"d", "m">>
    ELSE <<"u", "n", "k", "n", "o", "w", "n">>

\* the payload the invoker Lambda builds from its input event
InvokerPayload(event) ==
    [ prompt |-> Get(event, "text", <<>>),
      slack  |-> [ team_id      |-> event.team_id,
                   channel_id   |-> event.channel_id,
                   user_id      |-> event.user_id,
                   is_mentioned |-> event.is_mentioned,
                   is_dm        |-> event.is_dm,
                   channel_kind |-> event.channel_kind,
                   ts           |-> event.ts,
                   thread_ts    |-> event.thread_ts ] ]

build_user_message(prompt, slack_meta) ==
    LET ts           == Get(slack_meta, "ts", <<>>)
        thread_ts    == Get(slack_meta, "thread_ts", <<>>)
        is_in_thread == NonEmpty(thread_ts) /\ thread_ts # ts
    IN JoinLines(<< USER_MESSAGE_PREFIX \o prompt,
                    <<>>,
                    SLACK_CONTEXT_LINE,
                    CtxMentioned \o PyStrBool(Get(slack_meta, "is_mentioned", FALSE)),
                    CtxDm \o PyStrBool(Get(slack_meta, "is_dm", FALSE)),
                    CtxChannelKind \o KindChars(Get(slack_meta, "channel_kind", "unknown")),
                    CtxInThread \o PyStrBool(is_in_thread) >>)

derive_ids_from_metadata_thread_scoped(slack_meta) ==
    [ actor_id   |-> Get(slack_meta, "team_id", <<"u", "n", "k", "n", "o", "w", "n", "_", "t", "e", "a", "m">>),
      session_id |-> Get(slack_meta, "thread_ts", <<"u", "n", "k", "n", "o", "w", "n", "_", "c", "h", "a", "n", "n", "e", "l">>) ]

derive_ids_from_metadata(slack_meta) ==
    [ actor_id   |-> Get(slack_meta, "team_id", <<"u", "n", "k", "n", "o", "w", "n", "_", "t", "e", "a", "m">>),
      session_id |-> Get(slack_meta, "channel_id", <<"u", "n", "k", "n", "o", "w", "n", "_", "c", "h", "a", "n", "n", "e", "l">>) ]

\* Step 0 of run_orchestration: the text the pre-filter measures
text_only(user_message) ==
    Strip(RemoveAll(SplitFirst(user_message, SLACK_CONTEXT_MARK), USER_MESSAGE_PREFIX))

\* Step 0: the mention flag as read back from the context block
mentioned_in_message(user_message) == Contains(user_message, MENTIONED_TRUE)

PreFilterOff(user_message) ==
    Len(text_only(user_message)) < 3 /\ ~mentioned_in_message(user_message)

\* Step 0: short message without mention -> immediate ignore
PreFilter(user_message) ==
    Len(text_only(user_message)) <= 3 /\ ~mentioned_in_message(user_message)

\* the record returned by the pre-filter (its reason is a Japanese sentence,
\* "skipped automatically because the message is short")
PreFilterResult ==
    [ should_reply |-> FALSE, route |-> "ignore", reply_mode |-> "thread",
      typing_style |-> "none", reply_text |-> "",
      reason |-> "mijikai message no tame jidou skip" ]

\* invoke(): empty prompt
EmptyPromptResult ==
    [ should_reply |-> FALSE, route |-> "ignore", reply_mode |-> "thread",
      typing_style |-> "none", reply_text |-> "", reason |-> "Empty prompt" ]

DefaultResultNoReason(reason) ==
    [ should_reply |-> FALSE, route |-> "ignore", reply_mode |-> "thread",
      typing_style |-> "none", reply_text |-> "", reason |-> "" ]

DefaultResultInvokerStyle(reason) ==
    [ should_reply |-> FALSE, reason |-> reason ]

\* default_result with its reason overwritten by the failing branch
default_result(reason) ==
    [ should_reply |-> FALSE, route |-> "ignore", reply_mode |-> "thread",
      typing_style |-> "none", reply_text |-> "", reason |-> reason ]

\* field_validator normalize_typing_style (both response models)
normalize_typing_style(v) == IF v \in TypingStyles THEN v ELSE "none"

\* pydantic validation of the Router's structured output
RouterSchemaOk(raw) == raw.route \in Routes /\ raw.reply_mode \in ReplyModes

RouterResponse(raw) ==
    [ should_reply |-> raw.should_reply,
      route        |-> raw.route,
      reply_mode   |-> raw.reply_mode,
      typing_style |-> normalize_typing_style(raw.typing_style),
      reason       |-> raw.reason ]

\* pydantic validation of the Conversation agent's structured output
ConversationSchemaOk(raw) == raw.route = "full_reply" /\ raw.reply_mode \in ReplyModes

ConversationResponse(raw) ==
    [ should_reply |-> raw.should_reply,
      route        |-> raw.route,
      reply_mode   |-> raw.reply_mode,
      typing_style |-> normalize_typing_style(raw.typing_style),
      reply_text   |-> raw.reply_text,
      reason       |-> raw.reason ]

RouterIgnoresNoReplyOnly(r) == ~r.should_reply

RouterIgnoresBoth(r) == ~r.should_reply /\ r.route = "ignore"

\* Step 2: the Router decided not to reply
RouterIgnores(r) == ~r.should_reply \/ r.route = "ignore"

\* Step 2: the record returned when the Router ignores
RouterDecision(r) ==
    [ should_reply |-> r.should_reply, route |-> r.route,
      reply_mode |-> r.reply_mode, typing_style |-> r.typing_style,
      reply_text |-> "", reason |-> r.reason ]

RouterFallbackDefaults(r, reason) ==
    [ should_reply |-> r.should_reply, route |-> r.route,
      reply_mode |-> "thread", typing_style |-> "none",
      reply_text |-> "", reason |-> reason ]

\* Step 3: fall back to the Router's decision when the Conversation agent fails
RouterFallback(r, reason) ==
    [ should_reply |-> r.should_reply, route |-> r.route,
      reply_mode |-> r.reply_mode, typing_style |-> r.typing_style,
      reply_text |-> "", reason |-> reason ]

ConversationDoneKeepsRouterMode(r, c) == [ c EXCEPT !.reply_mode = r.reply_mode ]

\* Step 3: both agents answered; the result is conversation_output.model_dump()
\* and nothing of the Router's output r
ConversationDone(r, c) == c

(***************************************************************************)
(* The graph design of docs/graph.py: the condition of the edge from the   *)
(* router node to the convo node, on the Router's output.                  *)
(***************************************************************************)
route_fn_full_reply_final(router) ==
    IF ~router.should_reply THEN "END"
    ELSE IF router.route \in {"simple_reply", "full_reply"} THEN "END"
    ELSE "convo"

route_fn(router) ==
    IF ~router.should_reply THEN "END"
    ELSE IF router.route = "simple_reply" THEN "END"
    ELSE "convo"

(***************************************************************************)
(* What the two agents can answer (external collaborators).                *)
(***************************************************************************)
\* str(e) of an exception raised by an agent call
ExcMessages == {"", "Read timed out"}

\* arguments the Router model may hand to the structured-output tool
RouterRaw ==
    [ should_reply : BOOLEAN,
      route        : Routes \cup {"reply"},
      reply_mode   : {"thread"},
      typing_style : {"short"},
      reason       : {"router reason"} ]
    \cup
    [ should_reply : BOOLEAN,
      route        : Routes,
      reply_mode   : {"channel"},
      typing_style : {"fast"},
      reason       : {"router reason"} ]

\* arguments the Conversation model may hand to the structured-output tool
ConversationRaw ==
    [ should_reply : BOOLEAN,
      route        : {"full_reply", "simple_reply"},
      reply_mode   : ReplyModes,
      typing_style : {"long"},
      reply_text   : {"", "hello"},
      reason       : {"Full reply generated"} ]

\* classes of the exceptions an agent call raises; all derive from Exception
ExcClasses == {"EventLoopException", "ValidationError"}

\* "except Exception" in run_orchestration (Steps 1 and 3)
run_orchestration_catches(cls) == cls \in ExcClasses

\* "except Exception" in invoke()
invoke_catches(cls) == cls \in ExcClasses

\* invoke(): the record returned by its own except branch
InvokeErrorResult(msg) ==
    [ should_reply |-> FALSE, route |-> "ignore", reply_mode |-> "thread",
      typing_style |-> "none", reply_text |-> "", reason |-> "Error: " \o msg ]

\* outcome of router(user_message): raises, no structured output, or output;
\* an output that fails schema validation surfaces as an exception
RouterOutcomes ==
    { [kind |-> "raise", cls |-> "EventLoopException", msg |-> m] : m \in ExcMessages }
    \cup { [kind |-> "no_output"] }
    \cup { [kind |-> "invalid", cls |-> "ValidationError", msg |-> "validation error"] :
             raw \in { x \in RouterRaw : ~RouterSchemaOk(x) } }
    \cup { [kind |-> "output", out |-> RouterResponse(raw)] :
             raw \in { x \in RouterRaw : RouterSchemaOk(x) } }

ConversationOutcomes ==
    { [kind |-> "raise", cls |-> "EventLoopException", msg |-> m] : m \in ExcMessages }
    \cup { [kind |-> "no_output"] }
    \cup { [kind |-> "invalid", cls |-> "ValidationError", msg |-> "validation error"] :
             raw \in { x \in ConversationRaw : ~ConversationSchemaOk(x) } }
    \cup { [kind |-> "output", out |-> ConversationResponse(raw)] :
             raw \in { x \in ConversationRaw : ConversationSchemaOk(x) } }

NotCalled == [kind |-> "not_called"]
Pending == [kind |-> "pending"]

(***************************************************************************)
(* State.                                                                  *)
(***************************************************************************)
VARIABLES
    event,           \* the normalized event, input of the Step Functions run
    pc,              \* position of the run
    waited,          \* clock ticks spent in the agent call in progress
    routerCalls,     \* number of Router invocations
    responderCalls,  \* number of Conversation agent invocations
    routerRes,       \* outcome of the Router call
    responderRes,    \* outcome of the Conversation agent call
    result,          \* return value of invoke() (the FinalReply)
    escaped,         \* an exception left invoke() unhandled
    invokerOut,      \* return value of the invoker Lambda: event + agentResult
    posts,           \* calls of chat_postMessage, in order
    outcome,         \* return value of the posting Lambda
    slackLog,        \* what Slack did with each call of chat_postMessage
    deliveries,      \* number of invocations of the posting Lambda
    now,             \* time.time() in the ingress Lambda
    step_function_arn, \* os.environ STEP_FUNCTION_ARN of the ingress Lambda
    inbox,           \* webhook requests the Events API delivers, in order
    responses,       \* outcome of the ingress Lambda for each handled request
    started,         \* Step Functions executions started, in order
    startCalls,      \* calls of start_execution and what each one did
    memory_id,       \* os.environ AGENTCORE_MEMORY_ID of the runtime ("" = unset)
    invokeCall,      \* arguments of the invoker's invoke_agent_runtime call
    session_manager, \* what Step 3 bound the Conversation agent to
    raw,             \* arguments a model handed to the structured-output tool
    validated,       \* what the output model made of them
    runs,            \* concurrent invocations of run_orchestration
    default_results  \* the default_result dict of each of them

\* state of the ingress Lambda
ingressVars == << now, step_function_arn, inbox, responses, started, startCalls >>

\* state of one Step Functions execution
pipelineVars == << event, pc, waited, routerCalls, responderCalls, routerRes,
                   responderRes, result, escaped, invokerOut, posts, outcome,
                   slackLog, deliveries >>

\* the memory binding of one run
sessionVars == << memory_id, invokeCall, session_manager >>

\* state of the specifications of single functions and of concurrent runs
otherVars == << raw, validated, runs, default_results >>

vars == << pipelineVars, ingressVars, sessionVars, otherVars >>

NoResult == [none |-> TRUE]

\* Python values of varying type, tagged
PyDict(d) == [py |-> "dict", d |-> d]
PyStr(doc) == [py |-> "str", doc |-> doc]
PyNone == [py |-> "none"]
EmptyDict == [k \in {} |-> k]

\* memory is not configured and nothing was called yet
SessionIdle ==
    /\ memory_id = ""
    /\ invokeCall = NoResult
    /\ session_manager = NoResult

OthersIdle ==
    /\ raw = NoResult
    /\ validated = NoResult
    /\ runs = << >>
    /\ default_results = << >>

Init ==
    /\ event \in { NormalizedEvent(e) : e \in SlackEvents }
    /\ pc = "start"
    /\ waited = 0
    /\ routerCalls = 0
    /\ responderCalls = 0
    /\ routerRes = NotCalled
    /\ responderRes = NotCalled
    /\ result = NoResult
    /\ escaped = FALSE
    /\ invokerOut = NoResult
    /\ posts = <<>>
    /\ outcome = NoResult
    /\ slackLog = <<>>
    /\ deliveries = 0
    /\ now = 0
    /\ step_function_arn = ""
    /\ inbox = <<>>
    /\ responses = <<>>
    /\ started = <<>>
    /\ startCalls = <<>>
    /\ SessionIdle
    /\ OthersIdle

\* an exception of an agent call: the record of the except branch that
\* catches it (run_orchestration first, then invoke)
Handled(o, caught) ==
    IF run_orchestration_catches(o.cls) THEN caught
    ELSE IF invoke_catches(o.cls) THEN InvokeErrorResult(o.msg)
    ELSE NoResult

\* no except branch catches the exception: it leaves invoke()
Escapes(o) ==
    /\ o.kind \in {"raise", "invalid"}
    /\ ~run_orchestration_catches(o.cls)
    /\ ~invoke_catches(o.cls)

(***************************************************************************)
(* Session identifiers: the invoker's runtimeSessionId, invoke()'s ids and *)
(* _create_session_manager.                                                *)
(***************************************************************************)
DefaultRuntimeSession ==
    <<"d", "e", "f", "a", "u", "l", "t", "-", "s", "e", "s", "s", "i", "o", "n">>
DefaultSession ==
    <<"d", "e", "f", "a", "u", "l", "t", "_", "s", "e", "s", "s", "i", "o", "n">>
DefaultActor == <<"d", "e", "f", "a", "u", "l", "t", "_", "a", "c", "t", "o", "r">>

\* client.invoke_agent_runtime(runtimeSessionId=event.get("thread_ts",
\* "default-session"), payload=...)
InvokeAgentRuntimeCall(ev) ==
    [ runtimeSessionId |-> Get(ev, "thread_ts", DefaultRuntimeSession),
      payload          |-> InvokerPayload(ev) ]

\* x or default
Or(x, default) == IF NonEmpty(x) THEN x ELSE default

\* the session manager AgentCoreMemorySessionManager(memory_config)
SessionManager(mem, session_id, actor_id) ==
    [ py |-> "session_manager", memory_id |-> mem,
      session_id |-> session_id, actor_id |-> actor_id ]

\* constructing the configuration and the manager works, or the import or
\* the construction raises
CreateOutcomes == {"created", "ImportError", "Exception"}

\* _create_session_manager; invoke() passes None for an empty
\* AGENTCORE_MEMORY_ID, and "not memory_id" holds for both
create_session_manager(mem, session_id, actor_id, created) ==
    IF mem = "" THEN PyNone
    ELSE IF created = "created"
    THEN SessionManager(mem, Or(session_id, DefaultSession), Or(actor_id, DefaultActor))
    ELSE PyNone

\* ids = _derive_ids_from_metadata(metadata) in invoke()
SessionIds == derive_ids_from_metadata(InvokerPayload(event).slack)

\* the user message invoke() builds for the run's event
UserMessage == build_user_message(InvokerPayload(event).prompt, InvokerPayload(event).slack)

(***************************************************************************)
(* invoke() up to the Router call: empty prompt, pre-filter, or Step 1.    *)
(***************************************************************************)
RuntimeEntry ==
    /\ pc = "start"
    /\ IF ~NonEmpty(InvokerPayload(event).prompt)
       THEN /\ result' = EmptyPromptResult
            /\ pc' = "returned"
            /\ UNCHANGED << routerCalls, routerRes >>
       ELSE IF PreFilter(UserMessage)
       THEN /\ result' = PreFilterResult
            /\ pc' = "returned"
            /\ UNCHANGED << routerCalls, routerRes >>
       ELSE /\ routerCalls' = routerCalls + 1
            /\ routerRes' = Pending
            /\ pc' = "routing"
            /\ UNCHANGED result
    /\ UNCHANGED << event, waited, responderCalls, responderRes, escaped,
                    invokerOut, posts, outcome >>
    /\ UNCHANGED << slackLog, deliveries, ingressVars, otherVars >>
    /\ invokeCall' = InvokeAgentRuntimeCall(event)
    /\ UNCHANGED << memory_id, session_manager >>

(***************************************************************************)
(* The blocking agent call takes time; nothing in run_orchestration bounds *)
(* it.                                                                     *)
(***************************************************************************)
Tick ==
    /\ pc \in {"routing", "responding"}
    /\ waited < MaxElapsed
    /\ waited' = waited + 1
    /\ UNCHANGED << event, pc, routerCalls, responderCalls, routerRes,
                    responderRes, result, escaped, invokerOut, posts, outcome >>
    /\ UNCHANGED << slackLog, deliveries, ingressVars, otherVars >>
    /\ UNCHANGED sessionVars

(***************************************************************************)
(* Steps 1 and 2: the Router call returns.                                 *)
(***************************************************************************)
RouterReturns ==
    /\ pc = "routing"
    /\ \E o \in RouterOutcomes :
        /\ routerRes' = o
        /\ waited' = 0
        /\ IF o.kind = "no_output"
           THEN /\ result' = default_result("Router failed to return structured output")
                /\ pc' = "returned"
                /\ UNCHANGED << responderCalls, responderRes, session_manager >>
           ELSE IF o.kind \in {"raise", "invalid"}
           THEN /\ result' = Handled(o, default_result("Router Agent error: " \o o.msg))
                /\ pc' = "returned"
                /\ UNCHANGED << responderCalls, responderRes, session_manager >>
           ELSE IF RouterIgnores(o.out)
           THEN /\ result' = RouterDecision(o.out)
                /\ pc' = "returned"
                /\ UNCHANGED << responderCalls, responderRes, session_manager >>
           ELSE /\ responderCalls' = responderCalls + 1
                /\ responderRes' = Pending
                /\ pc' = "responding"
                /\ \E created \in CreateOutcomes :
                      session_manager' = create_session_manager(
                          memory_id, SessionIds.session_id, SessionIds.actor_id, created)
                /\ UNCHANGED result
        /\ escaped' = Escapes(o)
    /\ UNCHANGED << event, routerCalls, invokerOut, posts, outcome >>
    /\ UNCHANGED << slackLog, deliveries, ingressVars, otherVars >>
    /\ UNCHANGED << memory_id, invokeCall >>

(***************************************************************************)
(* Step 3: the Conversation agent call returns.                            *)
(***************************************************************************)
ResponderReturns ==
    /\ pc = "responding"
    /\ \E o \in ConversationOutcomes :
        /\ responderRes' = o
        /\ waited' = 0
        /\ result' =
            IF o.kind = "no_output"
            THEN RouterFallback(routerRes.out,
                                "Conversation failed to return structured output")
            ELSE IF o.kind \in {"raise", "invalid"}
            THEN Handled(o, RouterFallback(routerRes.out,
                                           "Conversation Agent error: " \o o.msg))
            ELSE ConversationDone(routerRes.out, o.out)
        /\ escaped' = Escapes(o)
        /\ pc' = "returned"
    /\ UNCHANGED << event, routerCalls, responderCalls, routerRes,
                    invokerOut, posts, outcome >>
    /\ UNCHANGED << slackLog, deliveries, ingressVars, otherVars >>
    /\ UNCHANGED sessionVars

(***************************************************************************)
(* Invoker Lambda: invoke_agent_runtime and _process_response.             *)
(* Python values of varying type are tagged; a piece of text is a document *)
(* that json.loads either accepts (json, with its value) or rejects.       *)
(***************************************************************************)

JsonDoc(v) == [json |-> TRUE, val |-> v]
TextDoc(t) == [json |-> FALSE, text |-> t]
DocText(doc) == IF doc.json THEN "{...}" ELSE doc.text

\* "\n".join(content) for the data lines of a stream
RECURSIVE JoinText(_)
JoinText(docs) ==
    IF Len(docs) = 0 THEN ""
    ELSE IF Len(docs) = 1 THEN DocText(docs[1])
    ELSE DocText(docs[1]) \o "\n" \o JoinText(Tail(docs))

\* what invoke_agent_runtime can return once invoke() returned res
RuntimeResponses(res) ==
    { [contentType |-> "application/json", data |-> << JsonDoc(PyDict(res)) >>],
      [contentType |-> "text/event-stream", data |-> << JsonDoc(PyDict(res)) >>],
      [contentType |-> "text/event-stream", data |-> << >>],
      [contentType |-> "text/event-stream",
       data |-> << TextDoc("Internal Server Error") >>],
      [contentType |-> "application/json",
       data |-> << TextDoc("Internal Server Error") >>],
      [contentType |-> "application/json",
       data |-> << JsonDoc(PyDict([reply_text |-> "raw", reason |-> "no decision"])) >>],
      [contentType |-> "application/json",
       data |-> << JsonDoc(PyStr(TextDoc("Internal Server Error"))) >>],
      [contentType |-> "text/plain", data |-> << TextDoc("Internal Server Error") >>] }

\* "text/event-stream" in content_type
IsEventStream(content_type) == content_type = "text/event-stream"

Return(v) == [raised |-> FALSE, val |-> v]
Raise(cls) == [raised |-> TRUE, cls |-> cls]

process_response(response) ==
    IF IsEventStream(response.contentType)
    THEN IF Len(response.data) > 0
         THEN IF response.data[Len(response.data)].json
              THEN Return(response.data[Len(response.data)].val)
              ELSE Return(PyDict(
                     [ should_reply |-> TRUE,
                       reply_text   |-> JoinText(response.data),
                       route        |-> "full_reply",
                       reply_mode   |-> "thread",
                       typing_style |-> "none",
                       reason       |-> "Non-JSON streaming response" ]))
         ELSE Return(PyNone)
    ELSE IF response.contentType = "application/json"
    THEN IF Len(response.data) = 1 /\ response.data[1].json
         THEN Return(response.data[1].val)
         ELSE Raise("JSONDecodeError")
    ELSE Return(PyDict(
           [ should_reply |-> FALSE,
             reason |-> "Unknown response format: " \o response.contentType ]))

WithAgentResultOnly(ev, agent_result) == [agentResult |-> agent_result]

\* {**event, "agentResult": agent_result}
WithAgentResult(ev, agent_result) ==
    [ k \in DOMAIN ev \cup {"agentResult"} |->
        IF k = "agentResult" THEN agent_result ELSE ev[k] ]

\* error codes of a ClientError of invoke_agent_runtime
ClientErrorCodes == {"ThrottlingException"}

\* the call fails: a ClientError, or any other exception
InvokerFails ==
    /\ pc \in {"start", "returned"}
    /\ \E agent_result \in
            { PyDict([should_reply |-> FALSE, reason |-> "AgentCore error: " \o c]) :
                c \in ClientErrorCodes }
            \cup
            { PyDict([should_reply |-> FALSE,
                      reason |-> "Unexpected error: " \o "ReadTimeoutError"]) } :
        invokerOut' = WithAgentResult(event, agent_result)
    /\ pc' = "deliver"
    /\ UNCHANGED << event, waited, routerCalls, responderCalls, routerRes,
                    responderRes, result, escaped, posts, outcome >>
    /\ UNCHANGED << slackLog, deliveries, ingressVars, otherVars >>
    /\ invokeCall' = IF pc = "start" THEN InvokeAgentRuntimeCall(event) ELSE invokeCall
    /\ UNCHANGED << memory_id, session_manager >>

\* the call returns a response and _process_response decodes it
InvokerReturns ==
    /\ pc = "returned"
    /\ ~escaped
    /\ \E response \in RuntimeResponses(result) :
        LET r == process_response(response)
        IN invokerOut' = WithAgentResult(event,
             IF r.raised
             THEN PyDict([should_reply |-> FALSE,
                          reason |-> "Unexpected error: " \o r.cls])
             ELSE r.val)
    /\ pc' = "deliver"
    /\ UNCHANGED << event, waited, routerCalls, responderCalls, routerRes,
                    responderRes, result, escaped, posts, outcome >>
    /\ UNCHANGED << slackLog, deliveries, ingressVars, otherVars >>
    /\ UNCHANGED sessionVars

(***************************************************************************)
(* Posting Lambda: parse_agent_result and lambda_handler.                  *)
(***************************************************************************)
parse_agent_result(agent_result) ==
    IF agent_result.py = "str"
    THEN IF agent_result.doc.json
         THEN agent_result.doc.val
         ELSE PyDict([ should_reply |-> TRUE,
                       reply_mode   |-> "thread",
                       reply_text   |-> agent_result.doc.text ])
    ELSE agent_result

\* what the Slack side of one posting attempt can do
SlackOutcomes ==
    { [kind |-> "ok", ts |-> <<"3", ".", "5">>],
      [kind |-> "slack_api_error", error |-> "channel_not_found"],
      [kind |-> "raise", cls |-> "URLError"],
      [kind |-> "token_error", cls |-> "ClientError"] }

ShouldReplyDefaultTrue(res) == Get(res, "should_reply", TRUE)

\* result.get("should_reply", False)
ShouldReply(res) == Get(res, "should_reply", FALSE)

PostCallAlwaysThreaded(channel_id, thread_ts, reply_mode, reply_text) ==
    IF NonEmpty(thread_ts)
    THEN [channel |-> channel_id, text |-> reply_text, thread_ts |-> thread_ts]
    ELSE [channel |-> channel_id, text |-> reply_text]

\* the chat_postMessage call: thread_ts only for reply_mode thread with a thread id
PostCall(channel_id, thread_ts, reply_mode, reply_text) ==
    IF reply_mode = "thread" /\ NonEmpty(thread_ts)
    THEN [channel |-> channel_id, text |-> reply_text, thread_ts |-> thread_ts]
    ELSE [channel |-> channel_id, text |-> reply_text]

\* "if not reply_text": an empty reply is skipped, not posted
EmptyReplyTextIgnored(reply_text) == FALSE

EmptyReplyText(reply_text) == reply_text = ""

\* the handler calls chat_postMessage once, whatever Slack answers
PostAttemptsRetryOnError(call, s) ==
    IF s.kind = "ok" THEN << call >> ELSE << call, call >>

PostAttempts(call, s) == << call >>

PostOutcomeUncaught(s, channel_id, thread_ts, reply_mode) ==
    IF s.kind = "ok"
    THEN [raised |-> FALSE, statusCode |-> 200,
          body |-> [ posted    |-> TRUE,
                     channel   |-> channel_id,
                     ts        |-> s.ts,
                     thread_ts |-> IF reply_mode = "thread"
                                   THEN PyStr(thread_ts)
                                   ELSE PyNone ]]
    ELSE [raised |-> TRUE, cls |-> "SlackApiError"]

\* what the handler returns after the call: the success record, the record
\* of "except SlackApiError", or the exception nothing catches
PostOutcome(s, channel_id, thread_ts, reply_mode) ==
    IF s.kind = "ok"
    THEN [raised |-> FALSE, statusCode |-> 200,
          body |-> [ posted    |-> TRUE,
                     channel   |-> channel_id,
                     ts        |-> s.ts,
                     thread_ts |-> IF reply_mode = "thread"
                                   THEN PyStr(thread_ts)
                                   ELSE PyNone ]]
    ELSE IF s.kind = "slack_api_error"
    THEN [raised |-> FALSE, statusCode |-> 500,
          body |-> [posted |-> FALSE, error |-> s.error]]
    ELSE [raised |-> TRUE, cls |-> s.cls]

\* one invocation of the posting Lambda on the invoker's output
PostToSlack ==
    /\ deliveries' = deliveries + 1
    /\ LET channel_id   == Get(invokerOut, "channel_id", <<>>)
           thread_ts    == Get(invokerOut, "thread_ts", <<>>)
           parsed       == parse_agent_result(Get(invokerOut, "agentResult", PyDict(EmptyDict)))
           res          == parsed.d
           reply_mode   == Get(res, "reply_mode", "thread")
           reply_text   == Get(res, "reply_text", "")
           reason       == Get(res, "reason", "")
       IN IF parsed.py # "dict"
          THEN \* result.get on a value that is no dict
               /\ outcome' = [raised |-> TRUE, cls |-> "AttributeError"]
               /\ UNCHANGED << posts, slackLog >>
          ELSE IF ~ShouldReply(res)
          THEN /\ outcome' = [raised |-> FALSE, statusCode |-> 200,
                              body |-> [posted |-> FALSE, reason |-> reason]]
               /\ UNCHANGED << posts, slackLog >>
          ELSE IF EmptyReplyText(reply_text)
          THEN /\ outcome' = [raised |-> FALSE, statusCode |-> 200,
                              body |-> [posted |-> FALSE, reason |-> "empty reply_text"]]
               /\ UNCHANGED << posts, slackLog >>
          ELSE \E s \in SlackOutcomes :
                 IF s.kind = "token_error"
                 THEN /\ outcome' = [raised |-> TRUE, cls |-> s.cls]
                      /\ UNCHANGED << posts, slackLog >>
                 ELSE /\ posts' = posts \o PostAttempts(
                                    PostCall(channel_id, thread_ts, reply_mode, reply_text), s)
                      /\ slackLog' = Append(slackLog, s)
                      /\ outcome' = PostOutcome(s, channel_id, thread_ts, reply_mode)
    /\ UNCHANGED << event, waited, routerCalls, responderCalls, routerRes,
                    responderRes, result, escaped, invokerOut >>
    /\ UNCHANGED << ingressVars, sessionVars, otherVars >>

\* the Step Functions task that invokes the posting Lambda
Deliver ==
    /\ pc = "deliver"
    /\ pc' = "done"
    /\ PostToSlack

Next ==
    \/ RuntimeEntry
    \/ Tick
    \/ RouterReturns
    \/ ResponderReturns
    \/ InvokerFails
    \/ InvokerReturns
    \/ Deliver

Spec == Init /\ [][Next]_vars

(***************************************************************************)
(* The posting Lambda invoked again on the same input (a retried task, a   *)
(* second execution for the same source event): lambda_handler keeps no    *)
(* record of what it has posted, so the invocation runs as the first did.  *)
(***************************************************************************)
Redeliver ==
    /\ pc = "done"
    /\ deliveries < MaxDeliveries
    /\ UNCHANGED pc
    /\ PostToSlack

NextRedeliver ==
    \/ Next
    \/ Redeliver

SpecRedeliver == Init /\ [][NextRedeliver]_vars

(***************************************************************************)
(* Ingress Lambda: verify_slack_signature and lambda_handler.              *)
(***************************************************************************)
\* 60 * 5 seconds
FiveMinutes == 300

Abs(x) == IF x < 0 THEN 0 - x ELSE x

Digits == << "0", "1", "2", "3", "4", "5", "6", "7", "8", "9" >>
IsDigit(c) == \E d \in DOMAIN Digits : Digits[d] = c
DigitValue(c) == (CHOOSE d \in DOMAIN Digits : Digits[d] = c) - 1

\* the part of an int() argument after surrounding whitespace and one sign
Unsigned(s) ==
    LET t == Strip(s)
    IN IF t # <<>> /\ t[1] \in {"+", "-"} THEN Tail(t) ELSE t

\* int(s) returns a value: s is an optionally signed run of decimal digits
IsIntLiteral(s) ==
    /\ Unsigned(s) # <<>>
    /\ \A i \in DOMAIN Unsigned(s) : IsDigit(Unsigned(s)[i])

RECURSIVE DecimalValue(_)
DecimalValue(ds) ==
    IF ds = <<>> THEN 0
    ELSE DecimalValue(SubSeq(ds, 1, Len(ds) - 1)) * 10 + DigitValue(ds[Len(ds)])

\* int(s) for an s that IsIntLiteral accepts
PyInt(s) ==
    LET t == Strip(s)
    IN IF t[1] = "-" THEN 0 - DecimalValue(Unsigned(s)) ELSE DecimalValue(Unsigned(s))

\* abs(time.time() - int(timestamp)) > 60 * 5
TooOldPastOnly(time, timestamp) == time - PyInt(timestamp) > FiveMinutes

TooOld(time, timestamp) == Abs(time - PyInt(timestamp)) > FiveMinutes

sig_basestring_without_body(timestamp, body) ==
    << "v", "0", ":" >> \o timestamp \o << ":" >>

\* f"v0:{timestamp}:{body}"
sig_basestring(timestamp, body) ==
    << "v", "0", ":" >> \o timestamp \o << ":" >> \o body

\* HMAC-SHA256 hexdigest, modelled as injective in (key, message)
hmac_sha256(key, msg) == [key |-> key, msg |-> msg]

\* the hex digits of a header value that carries no digest
NoDigest == [key |-> <<>>, msg |-> <<>>]

\* a signature header value: a prefix and hex digits, all ASCII or not
HeaderValue(ascii, prefix, digest) ==
    [ascii |-> ascii, prefix |-> prefix, digest |-> digest]
EmptyHeader == HeaderValue(TRUE, "", NoDigest)
NonAsciiHeader == HeaderValue(FALSE, "v0=", NoDigest)

\* "v0=" + hexdigest
SignatureOf(key, timestamp, body) ==
    HeaderValue(TRUE, "v0=", hmac_sha256(key, sig_basestring(timestamp, body)))

ReturnValue(v) == [raised |-> FALSE, value |-> v]
Raised(cls) == [raised |-> TRUE, cls |-> cls]

compare_digest_any(a, b) == ReturnValue(TRUE)

\* hmac.compare_digest on two str raises TypeError unless both are ASCII
compare_digest(a, b) ==
    IF a.ascii /\ b.ascii THEN ReturnValue(a = b) ELSE Raised("TypeError")

verify_slack_signature(secret, timestamp, body, signature, time) ==
    IF ~IsIntLiteral(timestamp) THEN Raised("ValueError")
    ELSE IF TooOld(time, timestamp) THEN ReturnValue(FALSE)
    ELSE compare_digest(
           HeaderValue(TRUE, "v0=", hmac_sha256(secret, sig_basestring(timestamp, body))),
           signature)

\* the signing secret of the SSM parameter, and another key
signing_secret == << "s", "1" >>
OtherSecret == << "s", "2" >>

\* readings of time.time(), and X-Slack-Request-Timestamp header values;
\* an absent header reads as the empty string
ClockReadings == { 1000, 1001 }
Timestamps ==
    { <<>>, << "a", "b" >>,
      << "7", "0", "0" >>, << "7", "0", "1" >>, << "1", "0", "0", "0" >>,
      << "1", "3", "0", "0" >>, << "1", "3", "0", "1" >> }

PyList == [py |-> "list"]
ChallengeToken == << "t", "o", "k" >>
DmChannel == << "D", "1" >>

\* a plain message event as the Events API sends it
MessageEvent(channel, user) ==
    [ type |-> "message", channel |-> channel, user |-> user,
      text |-> << "h", "e", "l", "p" >>, ts |-> EventTs ]

EventCallback(inner) ==
    PyDict([ type |-> "event_callback", team_id |-> TeamId, event |-> inner ])

\* request bodies: the text (abbreviated to the characters that tell the
\* bodies apart) and what json.loads makes of it
Bodies ==
    { [raw |-> << "x" >>, doc |-> TextDoc(<< "x" >>)],
      [raw |-> << "[" >>, doc |-> JsonDoc(PyList)],
      [raw |-> << "{", "h" >>,
       doc |-> JsonDoc(PyDict([type |-> "url_verification", challenge |-> ChallengeToken]))],
      [raw |-> << "{", "m" >>,
       doc |-> JsonDoc(EventCallback(MessageEvent(<< "C", "1" >>, UserId)))],
      [raw |-> << "{", "d" >>,
       doc |-> JsonDoc(EventCallback(MessageEvent(DmChannel, UserId)))],
      [raw |-> << "{", "e" >>,
       doc |-> JsonDoc(EventCallback(
                 [ type |-> "message", subtype |-> "message_changed",
                   channel |-> << "C", "1" >>, ts |-> EventTs ]))],
      [raw |-> << "{", "b" >>,
       doc |-> JsonDoc(EventCallback(
                 [ type |-> "message", bot_id |-> << "B", "1" >>,
                   channel |-> << "C", "1" >>, text |-> << "h", "i" >>, ts |-> EventTs ]))],
      [raw |-> << "{", "s" >>,
       doc |-> JsonDoc(EventCallback(MessageEvent(<< "C", "1" >>, bot_user_id)))],
      [raw |-> << "{", "a" >>,
       doc |-> JsonDoc(EventCallback(
                 [ type |-> "reaction_added", user |-> UserId ]))],
      [raw |-> << "{", "o" >>,
       doc |-> JsonDoc(PyDict([type |-> "app_rate_limited", team_id |-> TeamId]))] }

\* a field of an inner event that may be absent: no field, or one of the values
OptionalField(name, values) ==
    { EmptyDict } \cup { [k \in {name} |-> v] : v \in values }

\* a second public channel and a second message timestamp
LongChannel == << "C", "1", "1" >>
LongTs == << "1", "2", ".", "5" >>

\* inner events of event_callback envelopes: user messages over the channel
\* kinds with and without ts and thread_ts, events in one channel over
\* type, subtype, user and bot_id, and user messages of two channels at two
\* timestamps
InnerEvents ==
    { [type |-> "message", user |-> UserId, text |-> << "h", "e", "l", "p" >>]
        @@ c @@ t @@ th :
        c  \in OptionalField("channel", { << "C", "1" >>, << "G", "1" >>, DmChannel,
                                          << "W", "1" >> }),
        t  \in OptionalField("ts", { EventTs }),
        th \in OptionalField("thread_ts", { <<>>, ParentTs }) }
    \cup
    { [type |-> ty, user |-> u, channel |-> << "C", "1" >>, ts |-> EventTs,
       text |-> << "h", "e", "l", "p" >>] @@ st @@ b :
        ty \in { "message", "reaction_added" },
        u  \in { UserId, bot_user_id },
        st \in OptionalField("subtype", { "", "message_changed", "bot_message" }),
        b  \in OptionalField("bot_id", { << "B", "1" >> }) }
    \cup
    { [type |-> "message", user |-> UserId, text |-> << "h", "e", "l", "p" >>,
       channel |-> c, ts |-> t] :
        c \in { << "C", "1" >>, LongChannel }, t \in { EventTs, LongTs } }

\* one field of a body text: its name and value, or nothing when absent
FieldText(inner, name, isString) ==
    IF name \notin DOMAIN inner THEN <<>>
    ELSE << name, ":" >> \o (IF isString THEN << inner[name] >> ELSE inner[name]) \o << "," >>

\* the body text of an event_callback envelope around an inner event
EventBodyText(inner) ==
    << "{", "E" >>
      \o FieldText(inner, "type", TRUE) \o FieldText(inner, "subtype", TRUE)
      \o FieldText(inner, "channel", FALSE) \o FieldText(inner, "user", FALSE)
      \o FieldText(inner, "bot_id", FALSE) \o FieldText(inner, "ts", FALSE)
      \o FieldText(inner, "thread_ts", FALSE)

EventBodies ==
    { [raw |-> EventBodyText(inner), doc |-> JsonDoc(EventCallback(inner))] :
        inner \in InnerEvents }

\* json.loads(body): a document with json FALSE stands for JSONDecodeError
json_loads(body) ==
    IF Len(body) >= 2 /\ body[2] = "E"
    THEN (CHOOSE b \in EventBodies : b.raw = body).doc
    ELSE (CHOOSE b \in Bodies : b.raw = body).doc

\* the X-Slack-Signature values tried with a request: Slack's signature of
\* this body, Slack's signature of another body, a signature under another
\* key, no header, and a header with a non-ASCII character
Signatures(timestamp, body, other) ==
    { SignatureOf(signing_secret, timestamp, body),
      SignatureOf(signing_secret, timestamp, other),
      SignatureOf(OtherSecret, timestamp, body),
      EmptyHeader,
      NonAsciiHeader }

Request(timestamp, signature, body) ==
    [timestamp |-> timestamp, signature |-> signature, body |-> body]

is_bot_message_by_bot_id(slack_event, bot) ==
    NonEmpty(Get(slack_event, "bot_id", <<>>))

is_bot_message(slack_event, bot) ==
    \/ NonEmpty(Get(slack_event, "bot_id", <<>>))
    \/ Get(slack_event, "user", <<>>) = bot

is_processable_event_any_subtype(slack_event) ==
    Get(slack_event, "type", "") = "message"

is_processable_event_any_type(slack_event) ==
    Get(slack_event, "subtype", "") = ""

is_processable_event(slack_event) ==
    /\ Get(slack_event, "type", "") = "message"
    /\ Get(slack_event, "subtype", "") = ""

execution_name_without_separator(normalized_event) ==
    normalized_event.channel_id \o ReplaceChar(normalized_event.ts, ".", "-")

\* f"{channel_id}-{ts.replace('.', '-')}"
execution_name(normalized_event) ==
    normalized_event.channel_id \o << "-" >> \o ReplaceChar(normalized_event.ts, ".", "-")

HttpResponse(status, body) == [raised |-> FALSE, statusCode |-> status, body |-> body]
InvalidSignature == HttpResponse(401, [error |-> "Invalid signature"])
InvalidJson == HttpResponse(400, [error |-> "Invalid JSON"])
Ack == HttpResponse(200, [ok |-> TRUE])
ChallengeResponse(payload) ==
    [ raised |-> FALSE, statusCode |-> 200,
      headers |-> [ContentType |-> "application/json"],
      body |-> [challenge |-> Get(payload, "challenge", PyNone)] ]

\* what start_execution can do: a name never used starts an execution; a
\* used name with the same input of a running execution returns that
\* execution, otherwise ExecutionAlreadyExists; any call can fail
StartOutcomes(name, input) ==
    LET used == { i \in DOMAIN started : started[i].name = name }
    IN { [kind |-> "raise", cls |-> "ClientError", code |-> "ThrottlingException"] }
       \cup ( IF used = {}
              THEN { [kind |-> "started"] }
              ELSE { [kind |-> "raise", cls |-> "ClientError",
                      code |-> "ExecutionAlreadyExists"] }
                   \cup { [kind |-> "same_execution"] :
                            i \in { j \in used : started[j].input = input } } )

\* no execution has begun
PipelineIdle ==
    /\ event = NoResult
    /\ pc = "idle"
    /\ waited = 0
    /\ routerCalls = 0
    /\ responderCalls = 0
    /\ routerRes = NotCalled
    /\ responderRes = NotCalled
    /\ result = NoResult
    /\ escaped = FALSE
    /\ invokerOut = NoResult
    /\ posts = <<>>
    /\ outcome = NoResult
    /\ slackLog = <<>>
    /\ deliveries = 0

\* lambda_handler on the next request of the inbox
IngressHandler ==
    /\ Len(responses) < Len(inbox)
    /\ LET request  == inbox[Len(responses) + 1]
           verified == verify_slack_signature(signing_secret, request.timestamp,
                                              request.body, request.signature, now)
           doc      == json_loads(request.body)
           payload  == doc.val
           slack_event == Get(payload.d, "event", EmptyDict)
           normalized_event ==
               [ normalize_event(slack_event, bot_user_id)
                   EXCEPT !.team_id = Get(payload.d, "team_id", <<>>) ]
       IN IF verified.raised
          THEN /\ responses' = Append(responses, Raised(verified.cls))
               /\ UNCHANGED << started, startCalls >>
          ELSE IF ~verified.value
          THEN /\ responses' = Append(responses, InvalidSignature)
               /\ UNCHANGED << started, startCalls >>
          ELSE IF ~doc.json
          THEN /\ responses' = Append(responses, InvalidJson)
               /\ UNCHANGED << started, startCalls >>
          ELSE IF payload.py # "dict"
          THEN \* payload.get on a value that is no dict
               /\ responses' = Append(responses, Raised("AttributeError"))
               /\ UNCHANGED << started, startCalls >>
          ELSE IF Get(payload.d, "type", PyNone) = "url_verification"
          THEN /\ responses' = Append(responses, ChallengeResponse(payload.d))
               /\ UNCHANGED << started, startCalls >>
          ELSE IF /\ Get(payload.d, "type", PyNone) = "event_callback"
                  /\ is_processable_event(slack_event)
                  /\ ~is_bot_message(slack_event, bot_user_id)
                  /\ step_function_arn # ""
          THEN \E o \in StartOutcomes(execution_name(normalized_event), normalized_event) :
               /\ startCalls' = Append(startCalls,
                                  [ request |-> Len(responses) + 1,
                                    name    |-> execution_name(normalized_event),
                                    kind    |-> o.kind ])
               /\ IF o.kind = "raise"
                  THEN /\ responses' = Append(responses, Raised(o.cls))
                       /\ UNCHANGED started
                  ELSE /\ responses' = Append(responses, Ack)
                       /\ started' = IF o.kind = "started"
                                     THEN Append(started,
                                            [ name  |-> execution_name(normalized_event),
                                              input |-> normalized_event ])
                                     ELSE started
          ELSE /\ responses' = Append(responses, Ack)
               /\ UNCHANGED << started, startCalls >>
    /\ UNCHANGED << now, step_function_arn, inbox >>
    /\ UNCHANGED << pipelineVars, sessionVars, otherVars >>

\* two deliveries by the Events API: a request, and the same headers with a
\* body that may differ; no execution is running
InitIngress ==
    /\ now \in ClockReadings
    /\ step_function_arn \in { "", "arn" }
    /\ \E timestamp \in Timestamps, b1 \in Bodies, b2 \in Bodies :
         \E signature \in Signatures(timestamp, b1.raw, b2.raw) :
           inbox = << Request(timestamp, signature, b1.raw),
                      Request(timestamp, signature, b2.raw) >>
    /\ responses = <<>>
    /\ started = <<>>
    /\ startCalls = <<>>
    /\ event = NoResult
    /\ pc = "idle"
    /\ waited = 0
    /\ routerCalls = 0
    /\ responderCalls = 0
    /\ routerRes = NotCalled
    /\ responderRes = NotCalled
    /\ result = NoResult
    /\ escaped = FALSE
    /\ invokerOut = NoResult
    /\ posts = <<>>
    /\ outcome = NoResult
    /\ slackLog = <<>>
    /\ deliveries = 0
    /\ SessionIdle
    /\ OthersIdle

NextIngress == IngressHandler

SpecIngress == InitIngress /\ [][NextIngress]_vars

(***************************************************************************)
(* One validly signed event_callback request for each inner event: the     *)
(* handler's filters and normalize_event over the inner events.            *)
(***************************************************************************)
\* a timestamp header within five minutes of every clock reading
RecentTimestamp == << "1", "0", "0", "0" >>

InitNormalize ==
    /\ now \in ClockReadings
    /\ step_function_arn \in { "", "arn" }
    /\ \E b \in EventBodies :
         inbox = << Request(RecentTimestamp,
                            SignatureOf(signing_secret, RecentTimestamp, b.raw),
                            b.raw) >>
    /\ responses = <<>>
    /\ started = <<>>
    /\ startCalls = <<>>
    /\ PipelineIdle
    /\ SessionIdle
    /\ OthersIdle

NextNormalize == IngressHandler

SpecNormalize == InitNormalize /\ [][NextNormalize]_vars

(***************************************************************************)
(* Two validly signed deliveries of event_callback envelopes, of the same   *)
(* inner event or of two: the execution names start_execution is given.    *)
(***************************************************************************)
InitDeliveries ==
    /\ now = 1000
    /\ step_function_arn \in { "", "arn" }
    /\ \E b1 \in EventBodies, b2 \in EventBodies :
         inbox = << Request(RecentTimestamp,
                            SignatureOf(signing_secret, RecentTimestamp, b1.raw),
                            b1.raw),
                    Request(RecentTimestamp,
                            SignatureOf(signing_secret, RecentTimestamp, b2.raw),
                            b2.raw) >>
    /\ responses = <<>>
    /\ started = <<>>
    /\ startCalls = <<>>
    /\ PipelineIdle
    /\ SessionIdle
    /\ OthersIdle

NextDeliveries == IngressHandler

SpecDeliveries == InitDeliveries /\ [][NextDeliveries]_vars

(***************************************************************************)
(* One webhook request and the execution it starts: the state machine runs *)
(* the invoker and the posting Lambda on the input start_execution got,    *)
(* after and apart from the ingress Lambda's return.                       *)
(***************************************************************************)
InitEndToEnd ==
    /\ now \in ClockReadings
    /\ step_function_arn \in { "", "arn" }
    /\ \E timestamp \in Timestamps, b \in Bodies :
         \E signature \in Signatures(timestamp, b.raw, b.raw) :
           inbox = << Request(timestamp, signature, b.raw) >>
    /\ responses = <<>>
    /\ started = <<>>
    /\ startCalls = <<>>
    /\ PipelineIdle
    /\ SessionIdle
    /\ OthersIdle

ExecutionStartsHoldingAck ==
    /\ pc = "idle"
    /\ started # <<>>
    /\ event' = started[1].input
    /\ pc' = "start"
    /\ responses' = SubSeq(responses, 1, Len(responses) - 1)
    /\ UNCHANGED << waited, routerCalls, responderCalls, routerRes, responderRes,
                    result, escaped, invokerOut, posts, outcome, slackLog,
                    deliveries >>
    /\ UNCHANGED << now, step_function_arn, inbox, started, startCalls >>
    /\ UNCHANGED << sessionVars, otherVars >>

\* the started execution begins with the input given to start_execution
ExecutionStarts ==
    /\ pc = "idle"
    /\ started # <<>>
    /\ event' = started[1].input
    /\ pc' = "start"
    /\ UNCHANGED << waited, routerCalls, responderCalls, routerRes, responderRes,
                    result, escaped, invokerOut, posts, outcome, slackLog,
                    deliveries >>
    /\ UNCHANGED << ingressVars, sessionVars, otherVars >>

NextEndToEnd ==
    \/ IngressHandler
    \/ ExecutionStarts
    \/ Next

SpecEndToEnd == InitEndToEnd /\ [][NextEndToEnd]_vars

(***************************************************************************)
(* One execution with memory configured or not, for events of several      *)
(* teams and channels: the identifiers the invoker and the runtime use.    *)
(***************************************************************************)
OtherTeamId == <<"T", "2">>
OtherDmChannel == <<"D", "2">>
MemoryIds == { "", "mem-1" }

\* inner message events; "channel" and "thread_ts" are optional keys
MemorySlackEvents ==
    { [text |-> t, ts |-> EventTs, user |-> UserId] @@ ch @@ th :
        t  \in { <<"h", "e", "l", "p">>, <<"o", "k", "!">> },
        ch \in { [channel |-> c] : c \in ChannelIds \cup {OtherDmChannel} }
                 \cup { EmptyDict },
        th \in { [thread_ts |-> ParentTs], [thread_ts |-> <<>>], EmptyDict } }

\* the envelope's team_id, "" when the envelope has none
MemoryEvents ==
    { [ normalize_event(e, bot_user_id) EXCEPT !.team_id = team ] :
        e \in MemorySlackEvents, team \in { TeamId, OtherTeamId, <<>> } }

InitMemory ==
    /\ event \in MemoryEvents
    /\ memory_id \in MemoryIds
    /\ invokeCall = NoResult
    /\ session_manager = NoResult
    /\ pc = "start"
    /\ waited = 0
    /\ routerCalls = 0
    /\ responderCalls = 0
    /\ routerRes = NotCalled
    /\ responderRes = NotCalled
    /\ result = NoResult
    /\ escaped = FALSE
    /\ invokerOut = NoResult
    /\ posts = <<>>
    /\ outcome = NoResult
    /\ slackLog = <<>>
    /\ deliveries = 0
    /\ now = 0
    /\ step_function_arn = ""
    /\ inbox = <<>>
    /\ responses = <<>>
    /\ started = <<>>
    /\ startCalls = <<>>
    /\ OthersIdle

SpecMemory == InitMemory /\ [][Next]_vars

(***************************************************************************)
(* The output models on their own: the arguments a model hands to the      *)
(* structured-output tool are JSON values, validated by RouterResponse or  *)
(* ConversationResponse.                                                   *)
(***************************************************************************)
\* a JSON value given for typing_style: a string, or an array
JsonString(str) == [json |-> "string", s |-> str]
JsonArray == [json |-> "array"]

\* Python can hash it: "v in valid_values" raises TypeError for a list
Hashable(v) == v.json # "array"

RawTypingStyles ==
    { JsonString(str) : str \in TypingStyles \cup {"fast", ""} } \cup { JsonArray }

ToolArguments ==
    { [agent |-> "router", args |-> a] :
        a \in [ should_reply : BOOLEAN,
                route        : Routes \cup {"reply"},
                reply_mode   : {"thread"},
                typing_style : RawTypingStyles,
                reason       : {"router reason"} ] }
    \cup
    { [agent |-> "conversation", args |-> a] :
        a \in [ should_reply : BOOLEAN,
                route        : {"full_reply", "simple_reply"},
                reply_mode   : {"channel"},
                typing_style : RawTypingStyles,
                reply_text   : {"", "hello"},
                reason       : {"Full reply generated"} ] }

\* the arguments with the string given for typing_style
WithTypingStyleString(args) == [ args EXCEPT !.typing_style = @.s ]

\* RouterResponse(**args): the "before" validator of typing_style runs on the
\* raw value and its TypeError is no validation error
validate_router(args) ==
    IF ~Hashable(args.typing_style)
    THEN [kind |-> "raise", cls |-> "TypeError", msg |-> "unhashable type: 'list'"]
    ELSE IF ~RouterSchemaOk(WithTypingStyleString(args))
    THEN [kind |-> "invalid", cls |-> "ValidationError", msg |-> "validation error"]
    ELSE [kind |-> "output", out |-> RouterResponse(WithTypingStyleString(args))]

\* ConversationResponse(**args)
validate_conversation(args) ==
    IF ~Hashable(args.typing_style)
    THEN [kind |-> "raise", cls |-> "TypeError", msg |-> "unhashable type: 'list'"]
    ELSE IF ~ConversationSchemaOk(WithTypingStyleString(args))
    THEN [kind |-> "invalid", cls |-> "ValidationError", msg |-> "validation error"]
    ELSE [kind |-> "output", out |-> ConversationResponse(WithTypingStyleString(args))]

InitValidate ==
    /\ raw \in ToolArguments
    /\ validated = NoResult
    /\ runs = << >>
    /\ default_results = << >>
    /\ PipelineIdle
    /\ SessionIdle
    /\ now = 0
    /\ step_function_arn = ""
    /\ inbox = <<>>
    /\ responses = <<>>
    /\ started = <<>>
    /\ startCalls = <<>>

RouterValidates ==
    /\ raw.agent = "router"
    /\ validated = NoResult
    /\ validated' = validate_router(raw.args)
    /\ UNCHANGED << raw, runs, default_results >>
    /\ UNCHANGED << pipelineVars, ingressVars, sessionVars >>

ConversationValidates ==
    /\ raw.agent = "conversation"
    /\ validated = NoResult
    /\ validated' = validate_conversation(raw.args)
    /\ UNCHANGED << raw, runs, default_results >>
    /\ UNCHANGED << pipelineVars, ingressVars, sessionVars >>

NextValidate ==
    \/ RouterValidates
    \/ ConversationValidates

SpecValidate == InitValidate /\ [][NextValidate]_vars

(***************************************************************************)
(* Two invocations of run_orchestration in one runtime process, for two    *)
(* events, interleaved statement by statement.  A dict is a cell of the    *)
(* heap; a return value is a reference to a cell or a fresh record, and is *)
(* read when the caller serializes it.                                     *)
(***************************************************************************)
RunIds == {1, 2}

\* the events of the two runs: a mention, a message in a thread and a short
\* message
ConcurrentEvents ==
    { NormalizedEvent(e) :
        e \in { [channel |-> <<"C", "1">>, text |-> MentionToken, ts |-> EventTs,
                 user |-> UserId],
                [channel |-> <<"C", "1">>, text |-> <<"h", "e", "l", "p">>,
                 ts |-> EventTs, user |-> UserId, thread_ts |-> ParentTs],
                [channel |-> <<"C", "1">>, text |-> <<"o", "k", "!">>, ts |-> EventTs,
                 user |-> UserId] } }

UserMessageOf(ev) ==
    build_user_message(InvokerPayload(ev).prompt, InvokerPayload(ev).slack)

DefaultResultCellShared(r) == 1

\* "default_result = {...}" creates a dict of its own in every call
DefaultResultCell(r) == r

\* the dict default_result is bound to at the start of a call
InitialDefaultResult == default_result("Error during orchestration")

Ref(cell) == [ref |-> cell]
Val(record) == [val |-> record]

\* the dict a return value denotes, as the heap is now
Deref(res) == IF "ref" \in DOMAIN res THEN default_results[res.ref] ELSE res.val

\* default_result = {...}
Allocate(cell) ==
    [ c \in DOMAIN default_results \cup {cell} |->
        IF c = cell THEN InitialDefaultResult ELSE default_results[c] ]

\* default_result["reason"] = reason
SetReason(cell, reason) ==
    [ default_results EXCEPT ![cell] = [ @ EXCEPT !.reason = reason ] ]

InitConcurrent ==
    /\ \E e1 \in ConcurrentEvents, e2 \in ConcurrentEvents :
         /\ e1 # e2
         /\ runs = [ r \in RunIds |->
                      [ event |-> IF r = 1 THEN e1 ELSE e2, pc |-> "start",
                        routerRes |-> NotCalled, responderRes |-> NotCalled,
                        result |-> NoResult, reply |-> NoResult, post |-> << >> ] ]
    /\ default_results = << >>
    /\ raw = NoResult
    /\ validated = NoResult
    /\ PipelineIdle
    /\ SessionIdle
    /\ now = 0
    /\ step_function_arn = ""
    /\ inbox = <<>>
    /\ responses = <<>>
    /\ started = <<>>
    /\ startCalls = <<>>

ConcurrentFrame ==
    /\ UNCHANGED << raw, validated >>
    /\ UNCHANGED << pipelineVars, ingressVars, sessionVars >>

\* run_orchestration begins: default_result, then the pre-filter
RunEntry(r) ==
    /\ runs[r].pc = "start"
    /\ default_results' = Allocate(DefaultResultCell(r))
    /\ runs' = IF PreFilter(UserMessageOf(runs[r].event))
               THEN [ runs EXCEPT ![r].pc = "returned",
                                  ![r].result = Val(PreFilterResult) ]
               ELSE [ runs EXCEPT ![r].pc = "routing", ![r].routerRes = Pending ]
    /\ ConcurrentFrame

\* Steps 1 and 2 of run r
RunRouterReturns(r) ==
    /\ runs[r].pc = "routing"
    /\ \E o \in RouterOutcomes :
         IF o.kind = "no_output"
         THEN /\ default_results' = SetReason(DefaultResultCell(r),
                                       "Router failed to return structured output")
              /\ runs' = [ runs EXCEPT ![r].routerRes = o, ![r].pc = "returned",
                                       ![r].result = Ref(DefaultResultCell(r)) ]
         ELSE IF o.kind \in {"raise", "invalid"}
         THEN /\ default_results' = SetReason(DefaultResultCell(r),
                                       "Router Agent error: " \o o.msg)
              /\ runs' = [ runs EXCEPT ![r].routerRes = o, ![r].pc = "returned",
                                       ![r].result = Ref(DefaultResultCell(r)) ]
         ELSE IF RouterIgnores(o.out)
         THEN /\ runs' = [ runs EXCEPT ![r].routerRes = o, ![r].pc = "returned",
                                       ![r].result = Val(RouterDecision(o.out)) ]
              /\ UNCHANGED default_results
         ELSE /\ runs' = [ runs EXCEPT ![r].routerRes = o, ![r].pc = "responding",
                                       ![r].responderRes = Pending ]
              /\ UNCHANGED default_results
    /\ ConcurrentFrame

\* Step 3 of run r
RunResponderReturns(r) ==
    /\ runs[r].pc = "responding"
    /\ \E o \in ConversationOutcomes :
         runs' = [ runs EXCEPT
                     ![r].responderRes = o,
                     ![r].pc = "returned",
                     ![r].result = Val(
                        IF o.kind = "no_output"
                        THEN RouterFallback(runs[r].routerRes.out,
                               "Conversation failed to return structured output")
                        ELSE IF o.kind \in {"raise", "invalid"}
                        THEN RouterFallback(runs[r].routerRes.out,
                               "Conversation Agent error: " \o o.msg)
                        ELSE ConversationDone(runs[r].routerRes.out, o.out)) ]
    /\ UNCHANGED default_results
    /\ ConcurrentFrame

\* invoke() returns final_result and the runtime serializes it
RunReplies(r) ==
    /\ runs[r].pc = "returned"
    /\ runs' = [ runs EXCEPT ![r].pc = "replied", ![r].reply = Deref(runs[r].result) ]
    /\ UNCHANGED default_results
    /\ ConcurrentFrame

\* the chat_postMessage calls of the posting Lambda for an event and its reply
PostsFor(ev, reply) ==
    IF ShouldReply(reply) /\ ~EmptyReplyText(Get(reply, "reply_text", ""))
    THEN << PostCall(ev.channel_id, ev.thread_ts, Get(reply, "reply_mode", "thread"),
                     Get(reply, "reply_text", "")) >>
    ELSE << >>

\* the posting Lambda of run r, on its own input
RunPosts(r) ==
    /\ runs[r].pc = "replied"
    /\ runs' = [ runs EXCEPT ![r].pc = "done",
                             ![r].post = PostsFor(runs[r].event, runs[r].reply) ]
    /\ UNCHANGED default_results
    /\ ConcurrentFrame

NextConcurrent ==
    \E r \in RunIds :
        \/ RunEntry(r)
        \/ RunRouterReturns(r)
        \/ RunResponderReturns(r)
        \/ RunReplies(r)
        \/ RunPosts(r)

SpecConcurrent == InitConcurrent /\ [][NextConcurrent]_vars

(***************************************************************************)
(* Vocabulary of the properties.                                           *)
(***************************************************************************)
\* invoke() has returned its FinalReply
Returned == result # NoResult

\* the agentResult the posting Lambda received
AgentResult == invokerOut.agentResult

\* the posting Lambda received the FinalReply of invoke() itself
DeliveredFinalReply == invokerOut # NoResult /\ AgentResult = PyDict(result)

RouterFailed == routerRes.kind \in {"raise", "no_output", "invalid"}
RouterAnswered == routerRes.kind = "output"
ResponderFailed == responderRes.kind \in {"raise", "no_output", "invalid"}
ResponderAnswered == responderRes.kind = "output"

\* the reason run_orchestration writes for a failed Conversation agent call
ResponderFailureReasons ==
    { "Conversation failed to return structured output" }
    \cup { "Conversation Agent error: " \o m : m \in ExcMessages \cup {"validation error"} }

(***************************************************************************)
(* C1: a message of at most 3 characters that does not mention the bot is  *)
(* answered by the pre-filter: no Router call, no Conversation agent call, *)
(* should_reply = false, route = ignore, empty reply_text, and delivering  *)
(* that FinalReply posts nothing.                                          *)
(***************************************************************************)
ShortUnmentioned == Len(event.text) <= 3 /\ ~event.is_mentioned

C1_ShortUnmentionedIsPreFiltered ==
    ShortUnmentioned =>
        /\ routerCalls = 0
        /\ responderCalls = 0
        /\ Returned =>
            /\ result.should_reply = FALSE
            /\ result.route = "ignore"
            /\ result.reply_text = ""
        /\ DeliveredFinalReply => posts = << >>

C1_Witness ==
    /\ Len(event.text) = 3
    /\ ~event.is_mentioned
    /\ pc = "done"
    /\ result = PreFilterResult
    /\ DeliveredFinalReply
    /\ posts = << >>

(***************************************************************************)
(* C2: when the Router call raises, returns no structured output or        *)
(* returns output that fails the schema, the result is should_reply =      *)
(* false, route = ignore with a non-empty reason, and the Conversation     *)
(* agent is never invoked.                                                 *)
(***************************************************************************)
C2_RouterFailureIsIgnore ==
    RouterFailed =>
        /\ Returned
        /\ result.should_reply = FALSE
        /\ result.route = "ignore"
        /\ result.reason # ""
        /\ responderCalls = 0
        /\ responderRes = NotCalled

C2_Witness ==
    /\ routerRes.kind = "raise"
    /\ routerRes.msg = ""
    /\ result.reason = "Router Agent error: "
    /\ pc = "done"

(***************************************************************************)
(* C3 as stated: when the Router asked for a reply and the Conversation    *)
(* agent fails, the result carries the Router's should_reply, route,       *)
(* reply_mode, typing_style and reason, with empty reply_text.             *)
(***************************************************************************)
C3_FallbackKeepsRouterReason ==
    ResponderFailed =>
        /\ result.should_reply = routerRes.out.should_reply
        /\ result.route = routerRes.out.route
        /\ result.reply_mode = routerRes.out.reply_mode
        /\ result.typing_style = routerRes.out.typing_style
        /\ result.reason = routerRes.out.reason
        /\ result.reply_text = ""

(***************************************************************************)
(* C3 amended: when the Router asked for a reply and the Conversation      *)
(* agent fails, the result carries the Router's should_reply, route,       *)
(* reply_mode and typing_style with empty reply_text, and its reason is    *)
(* the annotation of the Conversation agent's failure.                     *)
(***************************************************************************)
C3_FallbackKeepsRouterDecision ==
    ResponderFailed =>
        /\ RouterAnswered
        /\ routerRes.out.should_reply
        /\ routerRes.out.route \in {"simple_reply", "full_reply"}
        /\ result.should_reply = routerRes.out.should_reply
        /\ result.route = routerRes.out.route
        /\ result.reply_mode = routerRes.out.reply_mode
        /\ result.typing_style = routerRes.out.typing_style
        /\ result.reason \in ResponderFailureReasons
        /\ result.reply_text = ""

C3_Witness ==
    /\ responderRes.kind = "raise"
    /\ routerRes.out.route = "full_reply"
    /\ routerRes.out.reply_mode = "channel"
    /\ result.reply_mode = "channel"
    /\ result.reply_text = ""
    /\ pc = "done"

(***************************************************************************)
(* C4: when both agents return structured output, the FinalReply is the    *)
(* Conversation agent's output in all six fields.                          *)
(***************************************************************************)
C4_ResponderOutputWins ==
    (RouterAnswered /\ ResponderAnswered) =>
        /\ Returned
        /\ \A f \in FinalReplyFields : result[f] = responderRes.out[f]

C4_Witness ==
    /\ RouterAnswered
    /\ ResponderAnswered
    /\ routerRes.out.reply_mode = "channel"
    /\ routerRes.out.route = "simple_reply"
    /\ result.reply_mode = "thread"
    /\ result.route = "full_reply"
    /\ result.reason # routerRes.out.reason
    /\ pc = "done"

(***************************************************************************)
(* C5: whatever way the orchestration ends, invoke() returns a record with *)
(* exactly the six FinalReply fields, and no exception of an agent call    *)
(* leaves invoke().                                                        *)
(***************************************************************************)
C5_AlwaysWellFormedFinalReply ==
    /\ ~escaped
    /\ pc \in {"returned"} => Returned
    /\ Returned =>
        /\ DOMAIN result = FinalReplyFields
        /\ result.should_reply \in BOOLEAN

C5_Witness ==
    /\ responderRes.kind = "invalid"
    /\ pc = "returned"
    /\ DOMAIN result = FinalReplyFields
    /\ ~escaped

(***************************************************************************)
(* C6: in every record invoke() returns, should_reply = false implies      *)
(* route = ignore.                                                         *)
(***************************************************************************)
C6_NoReplyImpliesIgnore ==
    Returned => (result.should_reply = FALSE => result.route = "ignore")

C8_OnlyShortUnmentionedSkipsRouter ==
    (Returned /\ (Len(Strip(event.text)) > 3 \/ event.is_mentioned)) => routerCalls = 1

(***************************************************************************)
(* C9: an agent call that has not returned within the wall-clock budget    *)
(* does not keep the run waiting: no run is still inside a Router or       *)
(* Conversation agent call after the budget has passed.                    *)
(***************************************************************************)
C9_NoWaitBeyondBudget ==
    pc \in {"routing", "responding"} => waited <= WallClockBudget

(***************************************************************************)
(* C10: a delivery whose agent result has should_reply = false, or has no  *)
(* should_reply at all, posts nothing and returns status 200 with          *)
(* posted = false.                                                         *)
(***************************************************************************)
C10_NoReplyNoPost ==
    (/\ pc = "done"
     /\ AgentResult.py = "dict"
     /\ ("should_reply" \in DOMAIN AgentResult.d => AgentResult.d.should_reply = FALSE))
    =>
        /\ posts = << >>
        /\ outcome.raised = FALSE
        /\ outcome.statusCode = 200
        /\ outcome.body.posted = FALSE

C10_Witness ==
    /\ pc = "done"
    /\ AgentResult.py = "dict"
    /\ "should_reply" \notin DOMAIN AgentResult.d
    /\ Get(AgentResult.d, "reply_text", "") # ""
    /\ posts = << >>
    /\ outcome.body.posted = FALSE

\* the record the posting Lambda works on: parse_agent_result of agentResult
DeliveryInput == parse_agent_result(Get(invokerOut, "agentResult", PyDict(EmptyDict)))

\* the run is over and the posting Lambda was handed a decision record
DeliveredRecord == pc = "done" /\ DeliveryInput.py = "dict"

C12_ThreadIdIffThreadMode ==
    \A i \in DOMAIN posts :
        LET reply_mode == Get(DeliveryInput.d, "reply_mode", "thread")
        IN /\ posts[i].channel = event.channel_id
           /\ ("thread_ts" \in DOMAIN posts[i])
                <=> (reply_mode = "thread" /\ event.thread_ts # <<>>)
           /\ "thread_ts" \in DOMAIN posts[i]
                => posts[i].thread_ts = event.thread_ts

C12_Witness ==
    /\ Len(posts) = 1
    /\ Get(DeliveryInput.d, "reply_mode", "thread") = "channel"
    /\ event.thread_ts = ParentTs
    /\ "thread_ts" \notin DOMAIN posts[1]

\* C13: a pipeline run calls chat_postMessage at most once, and a failed
\* post is not followed by a second attempt.
C13_AtMostOnePostAttempt ==
    /\ Len(posts) <= 1
    /\ Len(slackLog) <= 1

C13_Witness ==
    /\ pc = "done"
    /\ Len(posts) = 1
    /\ slackLog[1].kind = "slack_api_error"

\* the messages Slack accepted
PostedMessages == { i \in DOMAIN slackLog : slackLog[i].kind = "ok" }

\* C14: however often the posting Lambda is invoked for one source event,
\* at most one message is posted to Slack.
C14_DeliveryIsIdempotent == Cardinality(PostedMessages) <= 1

HandledRequests == DOMAIN responses

\* the timestamp header is a number within five minutes of the clock
FreshTimestamp(request) ==
    /\ IsIntLiteral(request.timestamp)
    /\ Abs(now - PyInt(request.timestamp)) <= FiveMinutes

\* "v0=" + HMAC-SHA256(secret, "v0:" + timestamp + ":" + body)
ExpectedSignature(request) ==
    [ ascii  |-> TRUE,
      prefix |-> "v0=",
      digest |-> [ key |-> signing_secret,
                   msg |-> << "v", "0", ":" >> \o request.timestamp
                             \o << ":" >> \o request.body ] ]

ValidlySigned(request) ==
    FreshTimestamp(request) /\ request.signature = ExpectedSignature(request)

\* verify_slack_signature returned True for request i: the handler neither
\* answered 401 nor left verification with an exception
Accepted(i) ==
    /\ responses[i] # InvalidSignature
    /\ ~(responses[i].raised /\ responses[i].cls \in {"ValueError", "TypeError"})

IsHandshake(request) ==
    /\ json_loads(request.body).json
    /\ json_loads(request.body).val.py = "dict"
    /\ Get(json_loads(request.body).val.d, "type", PyNone) = "url_verification"

\* C16: a request whose timestamp is more than 300 seconds from the clock,
\* in the past or in the future, is rejected whatever its signature, the
\* correct HMAC of (secret, timestamp, body) included.
C16_StaleTimestampRejected ==
    \A i \in HandledRequests :
        ( /\ IsIntLiteral(inbox[i].timestamp)
          /\ Abs(now - PyInt(inbox[i].timestamp)) > FiveMinutes )
        => responses[i] = InvalidSignature

C16_Witness ==
    \E i \in HandledRequests :
        /\ IsIntLiteral(inbox[i].timestamp)
        /\ PyInt(inbox[i].timestamp) - now > FiveMinutes
        /\ inbox[i].signature = ExpectedSignature(inbox[i])
        /\ responses[i] = InvalidSignature

\* C17: a request with a missing, empty or non-numeric timestamp, or with
\* no signature header, is answered 401; verification does not raise.
C17_MalformedIsRejectedNotRaised ==
    \A i \in HandledRequests :
        ( \/ ~IsIntLiteral(inbox[i].timestamp)
          \/ inbox[i].signature = EmptyHeader )
        => responses[i] = InvalidSignature

\* C18: a request is accepted iff its timestamp is fresh and its signature
\* is "v0=" + HMAC(secret, "v0:" + timestamp + ":" + body); of two requests
\* that differ only in the body at most one is accepted.
C18_AcceptedIffFreshAndSigned ==
    /\ \A i \in HandledRequests : Accepted(i) <=> ValidlySigned(inbox[i])
    /\ ( /\ Len(responses) = 2
         /\ inbox[1].body # inbox[2].body )
       => ~(Accepted(1) /\ Accepted(2))

C18_Witness ==
    /\ Len(responses) = 2
    /\ inbox[1].body # inbox[2].body
    /\ inbox[1].timestamp = inbox[2].timestamp
    /\ inbox[1].signature = inbox[2].signature
    /\ Accepted(1)
    /\ responses[2] = InvalidSignature

\* C19: 401 for every request that is not validly signed, 400 for a validly
\* signed request whose body is no JSON, 200 for every other validly
\* signed request.
C19_ThreeResponses ==
    \A i \in HandledRequests :
        /\ ~ValidlySigned(inbox[i]) => responses[i] = InvalidSignature
        /\ (ValidlySigned(inbox[i]) /\ ~json_loads(inbox[i].body).json)
             => responses[i] = InvalidJson
        /\ (ValidlySigned(inbox[i]) /\ json_loads(inbox[i].body).json)
             => (~responses[i].raised /\ responses[i].statusCode = 200)

\* C20: a validly signed handshake is answered 200 with its challenge, a
\* handshake that is not validly signed is answered 401 without it, and
\* handshakes start no execution.
C20_HandshakeEchoOnlyWhenSigned ==
    /\ \A i \in HandledRequests :
         IsHandshake(inbox[i])
         => IF ValidlySigned(inbox[i])
            THEN /\ ~responses[i].raised
                 /\ responses[i].statusCode = 200
                 /\ responses[i].body = [challenge |-> ChallengeToken]
            ELSE responses[i] = InvalidSignature
    /\ (\A i \in DOMAIN inbox : IsHandshake(inbox[i])) => started = <<>>

\* the body of the request is a JSON object
IsJsonObject(request) ==
    /\ json_loads(request.body).json
    /\ json_loads(request.body).val.py = "dict"

PayloadOf(request) == json_loads(request.body).val.d

\* the inner event of an event_callback envelope
InnerEventOf(request) == Get(PayloadOf(request), "event", EmptyDict)

IsEventCallback(request) ==
    /\ IsJsonObject(request)
    /\ Get(PayloadOf(request), "type", "") = "event_callback"

\* start_execution was called while request i was handled
StartCalledFor(i) == \E c \in DOMAIN startCalls : startCalls[c].request = i

C22_StartFailureStillAcked ==
    \A c \in DOMAIN startCalls :
        startCalls[c].kind = "raise"
        => /\ ~responses[startCalls[c].request].raised
           /\ responses[startCalls[c].request].statusCode = 200

\* the request that started execution k was answered 200 {"ok": true}
AckedDispatch(k) ==
    \E c \in DOMAIN startCalls :
        /\ startCalls[c].kind = "started"
        /\ startCalls[c].name = started[k].name
        /\ startCalls[c].request \in DOMAIN responses
        /\ ~responses[startCalls[c].request].raised
        /\ responses[startCalls[c].request].statusCode = 200
        /\ responses[startCalls[c].request].body = [ok |-> TRUE]

\* C23: the request of a dispatched event is answered 200 as soon as the
\* execution exists, before any step of the run, and no step of the run
\* changes an answer.
C23_AckWithoutWaiting ==
    /\ [](\A k \in DOMAIN started : AckedDispatch(k))
    /\ [][pipelineVars' # pipelineVars => responses' = responses]_vars

C23_Witness ==
    /\ started # <<>>
    /\ AckedDispatch(1)
    /\ pc = "idle"
    /\ routerCalls = 0
    /\ responderCalls = 0
    /\ posts = <<>>

\* request i is a validly signed event_callback envelope
SignedEventCallback(i) ==
    /\ ValidlySigned(inbox[i])
    /\ IsEventCallback(inbox[i])

\* request i was skipped: answered 200 {"ok": true}, start_execution not called
Skipped(i) ==
    /\ responses[i] = Ack
    /\ ~StartCalledFor(i)

C25_OwnMessageIsSkipped ==
    \A i \in HandledRequests :
        ( /\ SignedEventCallback(i)
          /\ "user" \in DOMAIN InnerEventOf(inbox[i])
          /\ InnerEventOf(inbox[i]).user = bot_user_id )
        => Skipped(i)

C25_Witness ==
    \E i \in HandledRequests :
        /\ SignedEventCallback(i)
        /\ step_function_arn # ""
        /\ InnerEventOf(inbox[i]).type = "message"
        /\ "subtype" \notin DOMAIN InnerEventOf(inbox[i])
        /\ "bot_id" \notin DOMAIN InnerEventOf(inbox[i])
        /\ InnerEventOf(inbox[i]).user = bot_user_id
        /\ Skipped(i)

\* C26: a validly signed JSON object whose type is not event_callback, or
\* whose inner event is not of type message, is answered 200 and
\* start_execution is not called.
C26_OtherTypesAreSkipped ==
    \A i \in HandledRequests :
        ( /\ ValidlySigned(inbox[i])
          /\ IsJsonObject(inbox[i])
          /\ \/ ~IsEventCallback(inbox[i])
             \/ Get(InnerEventOf(inbox[i]), "type", "") # "message" )
        => /\ ~responses[i].raised
           /\ responses[i].statusCode = 200
           /\ ~StartCalledFor(i)

C26_Witness ==
    \E i \in HandledRequests :
        /\ step_function_arn # ""
        /\ ValidlySigned(inbox[i])
        /\ IsEventCallback(inbox[i])
        /\ InnerEventOf(inbox[i]).type = "reaction_added"
        /\ Skipped(i)

\* C27: the channel_kind of a dispatched event is given by the first
\* character of its channel_id (C public, G private, D dm, anything else
\* or no character unknown), and is_dm holds iff channel_kind is dm.
C27_ChannelKindByFirstCharacter ==
    \A k \in DOMAIN started :
        LET e == started[k].input
            first == IF e.channel_id = <<>> THEN "" ELSE e.channel_id[1]
        IN /\ e.channel_kind = ( IF first = "C" THEN "public"
                                 ELSE IF first = "G" THEN "private"
                                 ELSE IF first = "D" THEN "dm"
                                 ELSE "unknown" )
           /\ e.is_dm <=> (e.channel_kind = "dm")

C27_Witness ==
    /\ started # <<>>
    /\ started[1].input.channel_id = << "G", "1" >>
    /\ started[1].input.channel_kind = "private"
    /\ ~started[1].input.is_dm

\* C28: every dispatched event has a non-empty thread_ts.
C28_ThreadTsNonEmpty ==
    \A k \in DOMAIN started : started[k].input.thread_ts # <<>>

C30_AgentResultIsAlwaysARecord ==
    /\ pc \in {"deliver", "done"}
       => /\ invokerOut.agentResult.py = "dict"
          /\ "should_reply" \in DOMAIN invokerOut.agentResult.d
          /\ invokerOut.agentResult.d.should_reply \in BOOLEAN
    /\ pc = "done"
       => ~(outcome.raised /\ outcome.cls = "AttributeError")

\* C31: every text posted to Slack is the reply_text of the Conversation
\* agent's structured output of this run.
C31_OnlyResponderTextIsPosted ==
    \A i \in DOMAIN posts :
        /\ responderRes.kind = "output"
        /\ posts[i].text = responderRes.out.reply_text

\* the manual orchestration went on to Step 3 for the Router's output
ManualInvokesResponder == responderCalls > 0

\* the graph takes the edge to the convo node for the Router's output
GraphInvokesResponder == route_fn(routerRes.out) = "convo"

C38_ReplyGoesToTheEventsOwnPlace ==
    /\ invokerOut # NoResult
          => /\ DOMAIN invokerOut = DOMAIN event \cup {"agentResult"}
             /\ \A k \in DOMAIN event : invokerOut[k] = event[k]
    /\ \A i \in DOMAIN posts :
          /\ posts[i].channel = event.channel_id
          /\ "thread_ts" \in DOMAIN posts[i]
                => posts[i].thread_ts = event.thread_ts

C38_Witness ==
    /\ pc = "done"
    /\ ResponderAnswered
    /\ DeliveredFinalReply
    /\ Len(posts) = 1
    /\ posts[1].channel = event.channel_id
    /\ "thread_ts" \in DOMAIN posts[1]
    /\ posts[1].thread_ts = ParentTs
    /\ invokerOut.user_id = event.user_id

\* the memory partition of an event: its team and its channel, with the fixed
\* defaults for an empty one
MemoryKey(ev) ==
    [ actor_id   |-> Or(ev.team_id, DefaultActor),
      session_id |-> Or(ev.channel_id, DefaultSession) ]

\* Step 3 bound the Conversation agent to a session manager
MemoryBound == session_manager \notin { NoResult, PyNone }

SessionIdChars ==
    { "a", "b", "c", "d", "e", "f", "g", "h", "i", "j", "k", "l", "m",
      "n", "o", "p", "q", "r", "s", "t", "u", "v", "w", "x", "y", "z",
      "A", "B", "C", "D", "E", "F", "G", "H", "I", "J", "K", "L", "M",
      "N", "O", "P", "Q", "R", "S", "T", "U", "V", "W", "X", "Y", "Z",
      "0", "1", "2", "3", "4", "5", "6", "7", "8", "9", "-", "_" }

IsSessionId(s) == \A i \in DOMAIN s : s[i] \in SessionIdChars

\* C34: the runtimeSessionId of the runtime invocation and the session_id of
\* the memory session consist of alphanumeric characters, dashes and
\* underscores only.
C34_SessionIdsAreSanitized ==
    /\ invokeCall # NoResult => IsSessionId(invokeCall.runtimeSessionId)
    /\ MemoryBound => IsSessionId(session_manager.session_id)

\* the other fields of the arguments pass the output model's validation
OtherFieldsValid ==
    /\ raw.args.reply_mode \in ReplyModes
    /\ IF raw.agent = "router"
       THEN raw.args.route \in Routes
       ELSE raw.args.route = "full_reply"

\* the typing_style given is one of none, short, long
TypingStyleGivenValid ==
    /\ raw.args.typing_style.json = "string"
    /\ raw.args.typing_style.s \in TypingStyles

\* C35: an output whose other fields are valid is accepted whatever its
\* typing_style: a value outside none, short, long becomes none, a valid one
\* is kept, and normalizing the result again changes nothing.
C35_InvalidTypingStyleIsNormalized ==
    (validated # NoResult /\ OtherFieldsValid)
        => /\ validated.kind = "output"
           /\ validated.out.typing_style =
                IF TypingStyleGivenValid THEN raw.args.typing_style.s ELSE "none"
           /\ normalize_typing_style(validated.out.typing_style)
                = validated.out.typing_style

\* the source event of request i: the channel and the ts of its inner event
SourceKey(i) ==
    << Get(InnerEventOf(inbox[i]), "channel", <<>>),
       Get(InnerEventOf(inbox[i]), "ts", <<>>) >>

\* C39: two deliveries ask start_execution for the same name exactly when
\* they carry the same channel and ts; the name is the channel_id, a dash and
\* the ts with its dot replaced by a dash; and no two started executions have
\* the same name or the same source event.
C39_OneExecutionPerSourceEvent ==
    /\ \A c \in DOMAIN startCalls, d \in DOMAIN startCalls :
          (SourceKey(startCalls[c].request) = SourceKey(startCalls[d].request))
              <=> (startCalls[c].name = startCalls[d].name)
    /\ \A c \in DOMAIN startCalls :
          startCalls[c].name
              = SourceKey(startCalls[c].request)[1] \o << "-" >>
                  \o ReplaceChar(SourceKey(startCalls[c].request)[2], ".", "-")
    /\ \A k \in DOMAIN started, l \in DOMAIN started :
          k # l => /\ started[k].name # started[l].name
                   /\ << started[k].input.channel_id, started[k].input.ts >>
                        # << started[l].input.channel_id, started[l].input.ts >>

C39_Witness ==
    /\ Len(startCalls) = 2
    /\ SourceKey(1) = << LongChannel, EventTs >>
    /\ SourceKey(2) = SourceKey(1)
    /\ startCalls[1].kind = "started"
    /\ startCalls[2].kind = "same_execution"
    /\ startCalls[2].name = startCalls[1].name
    /\ Len(started) = 1

\* the FinalReply of a run executed alone: a function of its event and of the
\* answers of its two stages
ReplyAlone(run) ==
    IF PreFilter(UserMessageOf(run.event)) THEN PreFilterResult
    ELSE IF run.routerRes.kind = "no_output"
    THEN default_result("Router failed to return structured output")
    ELSE IF run.routerRes.kind \in {"raise", "invalid"}
    THEN default_result("Router Agent error: " \o run.routerRes.msg)
    ELSE IF RouterIgnores(run.routerRes.out) THEN RouterDecision(run.routerRes.out)
    ELSE IF run.responderRes.kind = "no_output"
    THEN RouterFallback(run.routerRes.out,
                        "Conversation failed to return structured output")
    ELSE IF run.responderRes.kind \in {"raise", "invalid"}
    THEN RouterFallback(run.routerRes.out,
                        "Conversation Agent error: " \o run.responderRes.msg)
    ELSE ConversationDone(run.routerRes.out, run.responderRes.out)

\* C32: under every interleaving of two runs, the FinalReply each run returns
\* and the post made for it are those of the run executed alone with the same
\* answers of its stages, and the two runs never return the same dict.
C32_RunsShareNoState ==
    /\ \A r \in DOMAIN runs :
          /\ runs[r].reply # NoResult => runs[r].reply = ReplyAlone(runs[r])
          /\ runs[r].pc = "done"
                => runs[r].post = PostsFor(runs[r].event, ReplyAlone(runs[r]))
    /\ \A r \in DOMAIN runs, q \in DOMAIN runs :
          ( /\ r # q
            /\ "ref" \in DOMAIN runs[r].result
            /\ "ref" \in DOMAIN runs[q].result )
              => runs[r].result.ref # runs[q].result.ref

C32_Witness ==
    /\ runs # << >>
    /\ runs[1].pc = "done"
    /\ runs[1].reply.reason = "Router Agent error: Read timed out"
    /\ runs[2].pc = "returned"
    /\ "ref" \in DOMAIN runs[2].result
    /\ default_results[runs[2].result.ref].reason
         = "Router failed to return structured output"

====
